---- MODULE Spec2Model ----
(***************************************************************************)
(* A model of the ES6 feature showcase dashboard: the FeatureDashboard     *)
(* click dispatch and error path, the CodeDisplayManager, the six demo     *)
(* classes and their run() operations, the browser's timers, and the       *)
(* debounce helper; and, each on its own, the helpers the demos define:   *)
(* throttle, EventEmitter, memoize and ObjectPool.                         *)
(*                                                                         *)
(* JavaScript values are tagged records (S, B, N, Undef, TextV, PromiseV,  *)
(* Thrown).  A text is the sequence of its lines, so joining with "\n\n"   *)
(* puts one empty line between two texts.  Pictographs in the literals of  *)
(* the source are left out of the line strings.                            *)
(*                                                                         *)
(* One task of the event loop (a click, a timer callback) and the          *)
(* microtasks it queues are one action: no other task runs in between.     *)
(***************************************************************************)
EXTENDS Integers, Sequences, FiniteSets, TLC

VARIABLES
    elements,     \* ids of the elements the page holds
    innerHTML,    \* element id -> content written to it
    classList,    \* element id -> set of classes
    codeDisplay,  \* the CodeDisplayManager: currentCode and the element's html
    console,      \* sequence of console.error records
    unhandled,    \* sequence of rejections no handler took
    runs,         \* one record per runDemo call, in click order
    finished,     \* number of runDemo calls that have finished
    clicks,       \* the click events handled so far
    instances,    \* action -> fields of the demo instance
    now,          \* the clock, in ms
    timers,       \* pending setTimeout timers
    nextTimer,    \* next timer id
    dbWait,       \* debounce: the wait of the debounced function
    dbTimeout,    \* debounce: the closure's `timeout`
    dbCalls,      \* debounce: calls made so far, [at, arg]
    dbFired,      \* debounce: invocations of the wrapped function
    thInThrottle, \* throttle: the closure's `inThrottle`
    thCalls,      \* throttle: calls made so far, [at]
    thInvoked,    \* throttle: invocations of the wrapped function, [at, call]
    emEvents,     \* EventEmitter: this.events, event -> list of callbacks
    unsubs,       \* EventEmitter: the unsubscribe functions on/once returned
    emits,        \* EventEmitter: one record per emit
    cache,        \* memoize: the `cache` Map of each memoized function
    memoCalls,    \* memoize: one record per call of a memoized function
    pool,         \* ObjectPool: this.pool
    held,         \* ObjectPool: the objects acquire handed out
    poolOps       \* ObjectPool: one record per operation

vars == <<elements, innerHTML, classList, codeDisplay, console, unhandled,
          runs, finished, clicks, instances, now, timers, nextTimer,
          dbWait, dbTimeout, dbCalls, dbFired,
          thInThrottle, thCalls, thInvoked, emEvents, unsubs, emits,
          cache, memoCalls, pool, held, poolOps>>

dashVars == <<elements, innerHTML, classList, codeDisplay, console, unhandled,
              runs, finished, clicks, instances>>

dbVars == <<dbWait, dbTimeout, dbCalls, dbFired>>

thVars == <<thInThrottle, thCalls, thInvoked>>

emVars == <<emEvents, unsubs, emits>>

memoVars == <<cache, memoCalls>>

poolVars == <<pool, held, poolOps>>

\* the state of the helpers the demos define, each exercised on its own
unitVars == <<thVars, emVars, memoVars, poolVars>>

----------------------------------------------------------------------------
(* Bounds *)

MaxClicks == 2
MaxMissing == 1
MaxTime == 2400
TestDataLen == 2
MaxCalls == 3
TickMs == 100
MaxDebounceTime == 800
MaxElapsed == 1
MaxArg == 2
ThTickMs == 50
MaxThrottleTime == 400
MaxSubs == 3
MaxEmits == 2
MaxUnsubCalls == 2
MaxMemoCalls == 3
MaxFib == 3
MaxInitialSize == 2
MaxPoolOps == 5

----------------------------------------------------------------------------
(* JavaScript values *)

Undef == [t |-> "undefined"]
S(s) == [t |-> "string", s |-> s]
B(b) == [t |-> "boolean", b |-> b]
N(n) == [t |-> "number", n |-> n]
TextV(lines) == [t |-> "text", lines |-> lines]
PromiseV(of) == [t |-> "promise", of |-> of]
Thrown(message) == [t |-> "throw", message |-> message]

\* a Map nothing was set in
EmptyMap == [k \in {} |-> Undef]

\* obj[key] of an object: undefined when the key is absent
Get(obj, key) == IF key \in DOMAIN obj THEN obj[key] ELSE Undef

\* arr[i] of an array (0-based): undefined past the end
Index(arr, i) == IF (i + 1) \in DOMAIN arr THEN arr[i + 1] ELSE Undef

Falsy(v) == v = Undef \/ v = B(FALSE) \/ v = N(0) \/ v = S("")

\* a default that replaces every falsy value, as `v || d` would
WithDefaultFalsy(v, d) == IF Falsy(v) THEN d ELSE v

\* the default of a destructuring pattern `x = d`
WithDefault(v, d) == IF v = Undef THEN d ELSE v

\* `${v}` in a template literal
Str(v) ==
    CASE v.t = "string" -> v.s
      [] v.t = "boolean" -> (IF v.b THEN "true" ELSE "false")
      [] v.t = "number" -> ToString(v.n)
      [] v.t = "undefined" -> "undefined"
      [] OTHER -> "[object Object]"

\* String(v) of an array element inside Array.prototype.join
ElementText(v) ==
    CASE v.t = "text" -> v.lines
      [] v.t = "promise" -> <<"[object Promise]">>
      [] OTHER -> <<Str(v)>>

RECURSIVE JoinBlank(_)
\* examples.join("\n\n"): the texts in order, one empty line between two
JoinBlank(arr) ==
    IF Len(arr) = 0 THEN <<>>
    ELSE IF Len(arr) = 1 THEN ElementText(arr[1])
    ELSE ElementText(arr[1]) \o <<"">> \o JoinBlank(Tail(arr))

RECURSIVE JoinSep(_, _)
\* arr.join(sep) of strings
JoinSep(arr, sep) ==
    IF Len(arr) = 0 THEN ""
    ELSE IF Len(arr) = 1 THEN arr[1]
    ELSE arr[1] \o sep \o JoinSep(Tail(arr), sep)

\* arr.join(", ")
JoinComma(arr) == JoinSep(arr, ", ")

\* Math.round(num / den) for num >= 0, den > 0
RoundDiv(num, den) == (2 * num + den) \div (2 * den)

----------------------------------------------------------------------------
(* The registered demos *)

Actions == {"destructuring", "spread-rest", "arrow-functions",
            "template-literals", "advanced-patterns", "performance"}

\* this.demos: name -> class of the instance registered under it
demos ==
    [a \in Actions |->
        CASE a = "destructuring" -> "DestructuringDemo"
          [] a = "spread-rest" -> "SpreadRestDemo"
          [] a = "arrow-functions" -> "ArrowFunctionDemo"
          [] a = "template-literals" -> "TemplateLiteralDemo"
          [] a = "advanced-patterns" -> "AdvancedPatternsDemo"
          [] a = "performance" -> "PerformanceDemo"]

\* a lookup that falls back to the first demo for a name that is not registered
DemosGetOrFirst(action) ==
    IF action \in DOMAIN demos THEN demos[action] ELSE demos["destructuring"]

\* this.demos.get(action)
DemosGet(action) == IF action \in DOMAIN demos THEN demos[action] ELSE "undefined"

----------------------------------------------------------------------------
(* DestructuringDemo *)

\* constructor: this.sampleData
DestructuringDemoNew ==
    [sampleData |->
        [user |->
            [id |-> N(1),
             name |-> S("John Doe"),
             email |-> S("john@example.com"),
             preferences |->
                [theme |-> S("dark"),
                 notifications |-> [email |-> B(TRUE), push |-> B(FALSE), sms |-> B(TRUE)]],
             addresses |->
                << [type |-> S("home"), city |-> S("New York"), zipCode |-> S("10001")],
                   [type |-> S("work"), city |-> S("San Francisco"), zipCode |-> S("94105")] >>],
         products |->
            << [id |-> N(1), name |-> S("Laptop"), price |-> N(999), category |-> S("Electronics")],
               [id |-> N(2), name |-> S("Book"), price |-> N(29), category |-> S("Education")],
               [id |-> N(3), name |-> S("Coffee"), price |-> N(5), category |-> S("Food")] >>]]

nestedObjectDestructuring(self) ==
    LET user == self.sampleData.user
        name == Get(user, "name")
        email == Get(user, "email")
        preferences == Get(user, "preferences")
        theme == Get(preferences, "theme")
        notifications == Get(preferences, "notifications")
        emailNotif == Get(notifications, "email")
        pushNotif == WithDefault(Get(notifications, "push"), B(TRUE))
        addresses == Get(user, "addresses")
        homeAddress == Index(addresses, 0)
        workAddress == WithDefault(Index(addresses, 1), [city |-> S("Unknown")])
    IN TextV(<< "Nested Object Destructuring:",
                "Name: " \o Str(name),
                "Email: " \o Str(email),
                "Theme: " \o Str(theme),
                "Email Notifications: " \o Str(emailNotif),
                "Push Notifications: " \o Str(pushNotif),
                "Home City: " \o Str(homeAddress.city),
                "Work City: " \o Str(workAddress.city) >>)

arrayDestructuringWithDefaults(self) ==
    LET products == self.sampleData.products
        first == Index(products, 0)
        second == Index(products, 1)
        third == Index(products, 2)
        fourth == WithDefault(Index(products, 3),
                              [name |-> S("No more products"), price |-> N(0)])
    IN TextV(<< "Array Destructuring with Defaults:",
                "First Product: " \o Str(first.name) \o " - $" \o Str(first.price),
                "Second Product: " \o Str(second.name) \o " - $" \o Str(second.price),
                "Third Product: " \o Str(third.name) \o " - $" \o Str(third.price),
                "Fourth Product: " \o Str(fourth.name) \o " - $" \o Str(fourth.price) >>)

functionParameterDestructuring(self) ==
    LET user == self.sampleData.user
        name == Get(user, "name")
        email == Get(user, "email")
        preferences == WithDefault(Get(user, "preferences"), [none |-> Undef])
        theme == WithDefault(Get(preferences, "theme"), S("light"))
        addresses == WithDefault(Get(user, "addresses"), <<>>)
        addressCount == Len(addresses)
    IN TextV(<< "Function Parameter Destructuring:",
                "Processing " \o Str(name) \o " (" \o Str(email) \o ") with "
                    \o Str(theme) \o " theme and " \o ToString(addressCount) \o " addresses" >>)

dynamicPropertyExtraction(self) ==
    LET user == Get(self.sampleData, "user")
        userName == Get(user, "name")
        theme == Get(Get(user, "preferences"), "theme")
        city == Get(Index(Get(user, "addresses"), 0), "city")
    IN TextV(<< "Dynamic Property Extraction:",
                "{",
                "  \"user.name\": \"" \o Str(userName) \o "\",",
                "  \"user.preferences.theme\": \"" \o Str(theme) \o "\",",
                "  \"user.addresses.0.city\": \"" \o Str(city) \o "\"",
                "}" >>)

restPatternInDestructuring(self) ==
    LET products == self.sampleData.products
        firstProduct == Index(products, 0)
        restProducts == Tail(products)
        user == self.sampleData.user
    IN TextV(<< "Rest Pattern in Destructuring:",
                "First Product: " \o Str(firstProduct.name),
                "Remaining Products: " \o ToString(Len(restProducts)) \o " items",
                "User Core: " \o Str(user.name) \o ", " \o Str(user.email),
                "Other User Data Keys: id, preferences, addresses" >>)

DestructuringCode == "// Advanced Destructuring Patterns"

DestructuringExamples(self) ==
    << nestedObjectDestructuring(self),
       arrayDestructuringWithDefaults(self),
       functionParameterDestructuring(self),
       dynamicPropertyExtraction(self),
       restPatternInDestructuring(self) >>

----------------------------------------------------------------------------
(* SpreadRestDemo *)

\* constructor: baseUser, permissions, additionalData
SpreadRestDemoNew ==
    [baseUser |-> [id |-> N(1), name |-> S("John"), role |-> S("user")],
     permissions |-> <<"read", "write">>,
     additionalData |-> [lastLogin |-> S("2024-01-01"), isActive |-> B(TRUE)]]

\* new Date().toISOString(): the clock as text
ToISOString(clock) == ToString(clock)

\* this.permissions.push("admin"): grows the instance's own array
PushPermission(self) ==
    [list |-> self.permissions \o <<"admin">>,
     self |-> [self EXCEPT !.permissions = self.permissions \o <<"admin">>]]

\* [...this.permissions, "admin"]: the new array, and the instance after it
ComposedPermissions(self) == [list |-> self.permissions \o <<"admin">>, self |-> self]

\* objectComposition reads the clock for metadata.createdAt
objectComposition(self, clock) ==
    LET permissions == ComposedPermissions(self).list
    IN TextV(<< "Object Composition:",
                "{",
                "  \"id\": " \o Str(self.baseUser.id) \o ",",
                "  \"name\": \"" \o Str(self.baseUser.name) \o "\",",
                "  \"role\": \"" \o Str(self.baseUser.role) \o "\",",
                "  \"lastLogin\": \"" \o Str(self.additionalData.lastLogin) \o "\",",
                "  \"isActive\": " \o Str(self.additionalData.isActive) \o ",",
                "  \"permissions\": [" \o JoinComma(permissions) \o "],",
                "  \"metadata\": {",
                "    \"createdAt\": \"" \o ToISOString(clock) \o "\",",
                "    \"version\": \"1.0\"",
                "  }",
                "}" >>)

immutableUpdates ==
    TextV(<< "Immutable Updates:",
             "Original Users: 3",
             "Updated Users: 3",
             "With New User: 4",
             "Jane is now active: true" >>)

arrayMerging ==
    LET frontend == <<"React", "Vue", "Angular">>
        backend == <<"Node.js", "Python", "Java">>
        databases == <<"MongoDB", "PostgreSQL">>
        allTech == frontend \o backend \o databases
        techStack == SubSeq(frontend, 1, 1) \o backend \o databases
    IN TextV(<< "Array Merging & Manipulation:",
                "All Technologies: " \o JoinComma(allTech),
                "Tech Stack: " \o JoinComma(techStack),
                "Unique Count: " \o ToString(Len(allTech)) >>)

functionArguments ==
    TextV(<< "Variadic Functions:",
             "Numbers: 10, 25, 30, 15, 40",
             "Sum: " \o ToString(10 + 25 + 30 + 15 + 40),
             "Average: " \o ToString((10 + 25 + 30 + 15 + 40) \div 5) \o ".00",
             "Maximum: 40" >>)

conditionalSpreading ==
    TextV(<< "Conditional Spreading:",
             "{",
             "  \"url\": \"/api/users\",",
             "  \"method\": \"POST\",",
             "  \"headers\": {",
             "    \"Content-Type\": \"application/json\",",
             "    \"Authorization\": \"Bearer token123\"",
             "  },",
             "  \"cache\": \"default\"",
             "}" >>)

SpreadRestCode == "// Advanced Spread & Rest Patterns"

SpreadRestExamples(self, clock) ==
    << objectComposition(self, clock),
       immutableUpdates,
       arrayMerging,
       functionArguments,
       conditionalSpreading >>

----------------------------------------------------------------------------
(* ArrowFunctionDemo *)

\* constructor: this.context
ArrowFunctionDemoNew ==
    [context |-> [name |-> S("Dashboard"), version |-> S("1.0"),
                  features |-> <<"destructuring", "spread", "arrows">>]]

lexicalThisBinding ==
    LET name == "EventManager"
        events == <<"click", "scroll">>
        processed == [i \in DOMAIN events |-> name \o ": " \o events[i]]
    IN TextV(<< "Lexical This Binding:",
                "Events processed: " \o JoinComma(processed),
                "Arrow functions preserve outer 'this' context!" >>)

higherOrderFunctions ==
    LET data == [i \in 1..10 |-> i]
        evens == SelectSeq(data, LAMBDA n : n % 2 = 0)
        squares == [i \in DOMAIN evens |-> evens[i] * evens[i]]
        Sum[i \in 0..Len(squares)] == IF i = 0 THEN 0 ELSE Sum[i - 1] + squares[i]
        pipeline == Sum[Len(squares)]
        Line(n) == ToString(n) \o ": positive=" \o Str(B(n > 0)) \o ", even=" \o Str(B(n % 2 = 0))
    IN TextV(<< "Higher-Order Functions:",
                "Pipeline Result: " \o ToString(pipeline),
                "Validation Results:" >> \o [i \in 1..5 |-> Line(data[i])])

functionalComposition ==
    LET originalPrice == 100
        \* compose(Math.round, addShipping, addTax, applyDiscount(0.1)), in tenths of a cent
        discounted == originalPrice * 900
        taxed == (discounted * 11) \div 10
        shipped == taxed + 10000
        finalPrice == RoundDiv(shipped, 1000)
    IN TextV(<< "Functional Composition:",
                "Original Price: $" \o ToString(originalPrice),
                "Final Price: $" \o ToString(finalPrice),
                "Double 5: " \o ToString(2 * 5),
                "Triple 4: " \o ToString(3 * 4) >>)

\* the timers an asynchronous section goes through: stages of parallel timers
asyncArrowPatternsPlan == << [n |-> 3, delay |-> 100], [n |-> 1, delay |-> 100],
                             [n |-> 1, delay |-> 100] >>

\* an async method: the call returns a promise, its text comes later
asyncArrowPatterns == PromiseV("asyncArrowPatterns")

\* the text the promise of asyncArrowPatterns resolves to
asyncArrowPatternsText ==
    TextV(<< "Async Arrow Patterns:",
             "Parallel Results: 3 items fetched",
             "Sequential Results: DATA FROM /API/USERS, DATA FROM /API/POSTS" >>)

whenNotToUseArrows ==
    LET callerArguments == <<>>
    IN TextV(<< "When NOT to Use Arrows:",
                "Object Method: Object method with proper 'this': TestObject",
                "Constructor Result: TestName",
                "Arguments Example: " \o JoinComma(callerArguments) >>)

ArrowFunctionCode == "// Advanced Arrow Function Patterns"

ArrowFunctionExamples ==
    << lexicalThisBinding,
       higherOrderFunctions,
       functionalComposition,
       asyncArrowPatterns,
       whenNotToUseArrows >>

----------------------------------------------------------------------------
(* TemplateLiteralDemo *)

\* constructor: this.userData
TemplateLiteralDemoNew ==
    [userData |->
        [name |-> S("John Doe"), role |-> S("Senior Developer"), experience |-> N(5),
         skills |-> <<"JavaScript", "React", "Node.js">>,
         projects |->
            << [name |-> S("E-commerce Platform"), status |-> S("completed"), duration |-> S("6 months")],
               [name |-> S("Analytics Dashboard"), status |-> S("in-progress"), duration |-> S("3 months")] >>]]

basicTemplating(self) ==
    LET u == self.userData
    IN TextV(<< "Basic Template Literals:",
                "Developer Profile:",
                "Name: " \o Str(u.name),
                "Role: " \o Str(u.role),
                "Experience: " \o Str(u.experience) \o " year" \o (IF u.experience.n # 1 THEN "s" ELSE ""),
                "Skills: " \o JoinSep(u.skills, " * "),
                "Skill Count: " \o ToString(Len(u.skills)),
                "Senior Level: " \o (IF u.experience.n >= 5 THEN "Yes" ELSE "No") >>)

taggedTemplates(self) ==
    LET u == self.userData
        mark(v) == IF Falsy(v) THEN "" ELSE "<mark>" \o Str(v) \o "</mark>"
        quote(v) == IF v.t = "string" THEN "'" \o v.s \o "'" ELSE Str(v)
    IN TextV(<< "Tagged Template Literals:",
                "Highlighted: Developer " \o mark(u.name) \o " works as " \o mark(u.role),
                "SQL Query: SELECT * FROM users WHERE name = " \o quote(u.name)
                    \o " AND role = " \o quote(u.role) >>)

multilineTemplates(self) ==
    LET u == self.userData
        Rows(p) == << "| * " \o Str(p.name), "|   Status: " \o Str(p.status),
                      "|   Duration: " \o Str(p.duration) >>
    IN TextV(<< "Multiline Templates:",
                "PROJECT REPORT",
                "| Developer: " \o Str(u.name),
                "| Total Projects: " \o ToString(Len(u.projects)) >>
             \o Rows(u.projects[1]) \o Rows(u.projects[2]))

conditionalTemplating(self) ==
    LET u == self.userData
        completed == Len(SelectSeq(u.projects, LAMBDA p : p.status = S("completed")))
        inProgress == Len(SelectSeq(u.projects, LAMBDA p : p.status = S("in-progress")))
        plural(k) == IF k # 1 THEN "s" ELSE ""
        level == IF u.experience.n >= 5 THEN "Senior"
                 ELSE IF u.experience.n >= 2 THEN "Mid-level" ELSE "Junior"
        lines == << "Developer Status Report:",
                    Str(u.name) \o " is a " \o level \o " developer",
                    (IF Len(u.skills) > 3 THEN "Highly skilled" ELSE "Growing skillset")
                        \o " (" \o ToString(Len(u.skills)) \o " skills)",
                    IF completed > 0
                        THEN ToString(completed) \o " completed project" \o plural(completed)
                        ELSE "",
                    IF inProgress > 0
                        THEN ToString(inProgress) \o " project" \o plural(inProgress) \o " in progress"
                        ELSE "" >>
        last == IF u.experience.n >= 5 /\ Len(u.skills) > 3
                    THEN <<"Ready for leadership roles!">> ELSE <<>>
    IN TextV(<<"Conditional Templating:">> \o lines \o last)

templateFunctions(self) ==
    LET u == self.userData
        p == u.projects[1]
    IN TextV(<< "Template Functions:",
                "Welcome Email:",
                "Welcome " \o Str(u.name) \o "!",
                "We're excited to have you join us as a " \o Str(u.role) \o ".",
                "Your journey starts now!",
                "",
                "Project Email:",
                "Hi " \o Str(u.name) \o ",",
                "Project Update: \"" \o Str(p.name) \o "\"",
                "Status: COMPLETED",
                IF p.status = S("completed") THEN "Congratulations!"
                                             ELSE "Keep up the great work!" >>)

TemplateLiteralCode == "// Advanced Template Literal Patterns"

TemplateLiteralExamples(self) ==
    << basicTemplating(self),
       taggedTemplates(self),
       multilineTemplates(self),
       conditionalTemplating(self),
       templateFunctions(self) >>

----------------------------------------------------------------------------
(* AdvancedPatternsDemo *)

\* constructor: this.cache (an empty Map), this.observers
AdvancedPatternsDemoNew == [cache |-> <<>>, observers |-> <<>>]

closuresAndPrivacy ==
    LET initialValue == 10
        count == ((initialValue + 5) - 2) + 3
        history == <<"+5", "-2", "+3">>
    IN TextV(<< "Closures & Privacy:",
                "Current Value: " \o ToString(count),
                "History: " \o JoinComma(history),
                "Private state is completely encapsulated!" >>)

\* a + b: the sum of two numbers, otherwise the two operands as strings
Plus(a, b) ==
    IF a.t = "number" /\ b.t = "number" THEN N(a.n + b.n) ELSE S(Str(a) \o Str(b))

\* the object { result, cached } a memoized function returns
Memoized(result, cached) == [t |-> "object", result |-> result, cached |-> cached]

\* a JavaScript array of numbers
ArrayV(items) == [t |-> "array", items |-> items]

\* JSON.stringify of a number or of an array of numbers
Stringify(v) ==
    IF v.t = "number" THEN ToString(v.n)
    ELSE "[" \o JoinSep([i \in DOMAIN v.items |-> ToString(v.items[i])], ",") \o "]"

\* the default keyGenerator: JSON.stringify(args) of the one argument
KeyGenerator(arg) == "[" \o Stringify(arg) \o "]"

\* a cache.set that stores nothing
MapSetNothing(map, key, value) == map

\* cache.set(key, value)
MapSet(map, key, value) ==
    [k \in DOMAIN map \cup {key} |-> IF k = key THEN value ELSE map[k]]

RECURSIVE FibonacciCall(_, _)
RECURSIVE FibonacciBody(_, _)
\* fibonacci(n), the memoized function, on its cache c: the cache afterwards,
\* the object returned, and the keys the wrapped function was invoked for,
\* each with its result
FibonacciCall(c, n) ==
    LET key == KeyGenerator(N(n))
    IN IF key \in DOMAIN c
        THEN [cache |-> c, ret |-> Memoized(c[key], TRUE), invoked |-> <<>>]
        ELSE LET body == FibonacciBody(c, n)
             IN [cache |-> MapSet(body.cache, key, body.result),
                 ret |-> Memoized(body.result, FALSE),
                 invoked |-> body.invoked \o <<[key |-> key, result |-> body.result]>>]

\* the function fibonacci wraps.  fib = memoize(fibonacci) is a new memoized
\* function with an empty cache of its own: fib(n - 1) and fib(n - 2) both miss
\* it, call fibonacci, and hand back what fibonacci returned, a { result, cached }
\* object, as their .result
FibonacciBody(c, n) ==
    IF n <= 1 THEN [cache |-> c, result |-> N(n), invoked |-> <<>>]
    ELSE LET first == FibonacciCall(c, n - 1)
             fibCache == MapSet(EmptyMap, KeyGenerator(N(n - 1)), first.ret)
             second == IF KeyGenerator(N(n - 2)) \in DOMAIN fibCache
                          THEN [cache |-> first.cache, invoked |-> <<>>,
                                ret |-> fibCache[KeyGenerator(N(n - 2))]]
                          ELSE FibonacciCall(first.cache, n - 2)
         IN [cache |-> second.cache,
             result |-> Plus(first.ret, second.ret),
             invoked |-> first.invoked \o second.invoked]

RECURSIVE SumDoubled(_)
\* data.map((item) => item * 2).reduce((a, b) => a + b, 0)
SumDoubled(items) == IF items = <<>> THEN 0 ELSE 2 * Head(items) + SumDoubled(Tail(items))

\* processData(data), the memoized function, on its cache c
ProcessDataCall(c, data) ==
    LET key == KeyGenerator(ArrayV(data))
    IN IF key \in DOMAIN c
        THEN [cache |-> c, ret |-> Memoized(c[key], TRUE), invoked |-> <<>>]
        ELSE LET result == N(SumDoubled(data))
             IN [cache |-> MapSet(c, key, result),
                 ret |-> Memoized(result, FALSE),
                 invoked |-> <<[key |-> key, result |-> result]>>]

memoizationPattern ==
    LET fib10First == FibonacciCall(EmptyMap, 10)
        fib10Second == FibonacciCall(fib10First.cache, 10)
        dataResult == ProcessDataCall(EmptyMap, <<1, 2, 3, 4, 5>>)
    IN TextV(<< "Memoization Pattern:",
                "Fibonacci(10) first call: " \o Str(fib10First.ret.result)
                    \o " (cached: " \o Str(B(fib10First.ret.cached)) \o ")",
                "Fibonacci(10) second call: " \o Str(fib10Second.ret.result)
                    \o " (cached: " \o Str(B(fib10Second.ret.cached)) \o ")",
                "Data processing result: " \o Str(dataResult.ret.result) >>)

\* a callback passed to on: a function value, known by its name
Callback(name) == [name |-> name, wrap |-> 0]

\* the arrow function once passes to on: a new function per call of once (reg
\* tells them apart) that calls the callback `name` and then unsubscribe
OnceWrapper(name, reg) == [name |-> name, wrap |-> reg]

\* what the callback `name` returns for data
CallbackResult(name, data) == S(name \o "(" \o data \o ")")

\* an element map never assigned: the index was gone when map reached it
Hole == [t |-> "empty"]

\* callbacks.indexOf(callback), 0 for not found: the first equal function
IndexOf(callbacks, callback) ==
    IF \E i \in DOMAIN callbacks : callbacks[i].fn = callback
        THEN CHOOSE i \in DOMAIN callbacks :
                /\ callbacks[i].fn = callback
                /\ \A j \in 1..(i - 1) : callbacks[j].fn # callback
        ELSE 0

\* callbacks.splice(index, 1)
Splice(callbacks, index) ==
    SubSeq(callbacks, 1, index - 1) \o SubSeq(callbacks, index + 1, Len(callbacks))

\* on(event, callback): push; reg numbers the registration (the code has no
\* such number, the list holds the functions only)
EmitterOn(ev, event, callback, reg) ==
    LET list == IF event \in DOMAIN ev THEN ev[event] ELSE <<>>
    IN [e \in DOMAIN ev \cup {event} |->
            IF e = event THEN Append(list, [fn |-> callback, reg |-> reg]) ELSE ev[e]]

\* the function on returns: remove the first occurrence of the callback
Unsubscribe(ev, event, callback) ==
    LET index == IndexOf(ev[event], callback)
    IN IF index > 0 THEN [ev EXCEPT ![event] = Splice(@, index)] ELSE ev

RECURSIVE MapCallbacks(_, _, _, _, _, _, _)
\* callbacks.map((callback) => callback(data)) from index k on: len is the
\* length at the start, an index that is gone is skipped and left a hole;
\* a once wrapper calls its callback and unsubscribes while map is running
MapCallbacks(ev, event, data, k, len, called, results) ==
    IF k > len THEN [ev |-> ev, called |-> called, results |-> results]
    ELSE IF k > Len(ev[event])
        THEN MapCallbacks(ev, event, data, k + 1, len, called, Append(results, Hole))
    ELSE LET e == ev[event][k]
         IN IF e.fn.wrap # 0
              THEN MapCallbacks(Unsubscribe(ev, event, e.fn), event, data, k + 1, len,
                                Append(called, e.reg), Append(results, Undef))
              ELSE MapCallbacks(ev, event, data, k + 1, len,
                                Append(called, e.reg),
                                Append(results, CallbackResult(e.fn.name, data)))

\* emit(event, data)
EmitterEmit(ev, event, data) ==
    IF event \notin DOMAIN ev THEN [ev |-> ev, called |-> <<>>, results |-> <<>>]
    ELSE MapCallbacks(ev, event, data, 1, Len(ev[event]), <<>>, <<>>)

\* the registrations and emits of observerPattern, and the messages pushed
ObserverDemo ==
    LET e1 == EmitterOn(<<>>, "user:login", Callback("login"), 1)
        e2 == EmitterOn(e1, "user:logout", Callback("logout"), 2)
        e3 == EmitterOn(e2, "system:startup", OnceWrapper("startup", 3), 3)
        m1 == EmitterEmit(e3, "system:startup", "undefined")
        m2 == EmitterEmit(m1.ev, "user:login", "John")
        m3 == EmitterEmit(m2.ev, "user:logout", "John")
        m4 == EmitterEmit(m3.ev, "system:startup", "undefined")
        called == m1.called \o m2.called \o m3.called \o m4.called
    IN [i \in DOMAIN called |->
            CASE called[i] = 1 -> "User John logged in"
              [] called[i] = 2 -> "User John logged out"
              [] called[i] = 3 -> "System started (one-time event)"]

observerPattern ==
    LET messages == ObserverDemo
    IN TextV(<< "Observer Pattern:",
                "Events fired: " \o ToString(Len(messages)),
                "Messages:" >> \o [i \in DOMAIN messages |-> "* " \o messages[i]])

modulePattern ==
    LET users == << [id |-> 1, name |-> "John"], [id |-> 2, name |-> "Jane"] >>
    IN TextV(<< "Module Pattern:",
                "Created Users: " \o ToString(Len(users)),
                "User 1: " \o users[1].name \o " (ID: " \o ToString(users[1].id) \o ")",
                "User 2: " \o users[2].name \o " (ID: " \o ToString(users[2].id) \o ")",
                "Private state is completely encapsulated!" >>)

\* createSmartObject(): the proxy's target and the accessLog of its closure
createSmartObject == [target |-> <<>>, accessLog |-> <<>>, error |-> ""]

\* prop.startsWith("is") && prop.length > 2, for the property names in use
IsDynamic(prop) == prop \in {"isName", "isAge", "isEmail"}

\* prop.slice(2).toLowerCase()
DynamicProperty(prop) ==
    CASE prop = "isName" -> "name"
      [] prop = "isAge" -> "age"
      [] prop = "isEmail" -> "email"

\* the handler's set trap
ProxySet(p, prop, value) ==
    LET logged == Append(p.accessLog, "SET: " \o prop \o " = " \o Str(value))
    IN IF p.error # "" THEN p
       ELSE IF prop = "age" /\ (value.n < 0 \/ value.n > 150)
            THEN [p EXCEPT !.accessLog = logged, !.error = "Invalid age value"]
       ELSE IF prop = "email" /\ value.s \notin {"john@example.com", "jane@example.com"}
            THEN [p EXCEPT !.accessLog = logged, !.error = "Invalid email format"]
       ELSE [p EXCEPT !.accessLog = logged, !.target = (prop :> value) @@ p.target]

\* the handler's has trap: the proxy after it, and its answer
ProxyHas(p, prop) ==
    [proxy |-> [p EXCEPT !.accessLog = Append(p.accessLog, "HAS: " \o prop)],
     value |-> B(prop \in DOMAIN p.target)]

\* the handler's get trap: the proxy after it, and the value it returns
ProxyGet(p, prop) ==
    [proxy |-> [p EXCEPT !.accessLog = Append(p.accessLog, "GET: " \o prop)],
     value |-> IF IsDynamic(prop)
                  THEN [t |-> "function", property |-> DynamicProperty(prop)]
                  ELSE Get(p.target, prop)]

proxyPattern ==
    LET p1 == ProxySet(createSmartObject, "name", S("John"))
        p2 == ProxySet(p1, "age", N(30))
        p3 == ProxySet(p2, "email", S("john@example.com"))
        has == ProxyHas(p3, "name")
        hasName == has.value
        getIs == ProxyGet(has.proxy, "isName")
        isName == B(Get(getIs.proxy.target, getIs.value.property) # Undef)
        getLog == ProxyGet(getIs.proxy, "accessLog")
        log == getLog.value
        getName == ProxyGet(getLog.proxy, "name")
        \* the array `log` aliases the closure's accessLog
        items == getName.proxy.accessLog
        lastThree == SubSeq(items, Len(items) - 2, Len(items))
    IN IF p3.error # "" THEN Thrown(p3.error)
       ELSE IF log = Undef
            THEN Thrown("Cannot read properties of undefined (reading 'slice')")
       ELSE TextV(<< "Proxy Pattern:",
                     "User Name: " \o Str(getName.value),
                     "Has Name: " \o Str(hasName),
                     "Is Name (dynamic): " \o Str(isName),
                     "Access Log: " \o JoinComma(lastThree),
                     "Total Operations: " \o ToString(Len(items)) >>)

AdvancedPatternsCode == "// Advanced JavaScript Patterns"

AdvancedPatternsExamples ==
    << closuresAndPrivacy,
       memoizationPattern,
       observerPattern,
       modulePattern,
       proxyPattern >>

----------------------------------------------------------------------------
(* Timers: setTimeout / clearTimeout.  A timer table is [set, next]. *)

DashboardWait == 300
HighlightMs == 2000
DemoWait == 100
DemoLimit == 100
AwaitMs == 150
RapidCalls == 50

\* the value of a `let timeout` nothing was assigned to: no timer has this id
NoTimer == 0

\* setTimeout(callback, delay): the callback is named by kind, run and arg
SetTimeout(tm, kind, run, arg, delay, clock) ==
    [set |-> tm.set \cup {[id |-> tm.next, due |-> clock + delay, kind |-> kind,
                           run |-> run, arg |-> arg]},
     next |-> tm.next + 1]

\* clearTimeout(id): nothing happens for an id that is not pending
ClearTimeout(tm, id) == [tm EXCEPT !.set = {t \in tm.set : t.id # id}]

\* a debounced function that sets a new timer without clearing the old one
DebounceCallNoClear(tm, timeout, kind, run, arg, wait, clock) ==
    [tm |-> SetTimeout(tm, kind, run, arg, wait, clock), timeout |-> tm.next]

\* one call of the function debounce(func, wait) returns
DebounceCall(tm, timeout, kind, run, arg, wait, clock) ==
    LET cleared == ClearTimeout(tm, timeout)
    IN [tm |-> SetTimeout(cleared, kind, run, arg, wait, clock), timeout |-> cleared.next]

\* a throttled function without its window: every call goes through
ThrottleCallNoWindow(tm, inThrottle, count, run, limit, clock) ==
    [tm |-> SetTimeout(tm, "throttle", run, 0, limit, clock),
     inThrottle |-> FALSE, count |-> count + 1]

\* one call of the function throttle(func, limit) returns
ThrottleCall(tm, inThrottle, count, run, limit, clock) ==
    IF ~inThrottle
        THEN [tm |-> SetTimeout(tm, "throttle", run, 0, limit, clock),
              inThrottle |-> TRUE, count |-> count + 1]
        ELSE [tm |-> tm, inThrottle |-> inThrottle, count |-> count]

----------------------------------------------------------------------------
(* PerformanceDemo *)

\* the values of score and active the two Math.random() calls are drawn from
RandomChoices == {[score |-> 20, active |-> TRUE], [score |-> 70, active |-> FALSE]}

\* constructor: this.testData, one of the arrays Math.random can give
PerformanceDemoNewSet ==
    {[testData |-> [i \in 1..TestDataLen |->
                        [id |-> i - 1, score |-> c[i].score, active |-> c[i].active]]] :
        c \in [1..TestDataLen -> RandomChoices]}

\* the locals of debouncingThrottling and of its closures
debouncingThrottlingLocals ==
    [timeout |-> NoTimer, inThrottle |-> FALSE,
     directCount |-> 0, debounceCount |-> 0, throttleCount |-> 0]

RECURSIVE rapidCallsForEach(_, _, _, _)
\* rapidCalls.forEach: k more rounds of the three operations, directCount rounds done
rapidCallsForEach(k, st, run, clock) ==
    IF k = 0 \/ st.loc.directCount >= RapidCalls THEN st
    ELSE LET d == DebounceCall(st.tm, st.loc.timeout, "debounce", run, 0, DemoWait, clock)
             th == ThrottleCall(d.tm, st.loc.inThrottle, st.loc.throttleCount, run,
                                DemoLimit, clock)
         IN rapidCallsForEach(k - 1,
                [tm |-> th.tm,
                 loc |-> [st.loc EXCEPT !.timeout = d.timeout,
                                        !.inThrottle = th.inThrottle,
                                        !.throttleCount = th.count,
                                        !.directCount = st.loc.directCount + 1]],
                run, clock)

\* debouncingThrottling up to its await: the rapid calls, then the 150 ms timer
debouncingThrottlingStart(tm, run, clock) ==
    LET st == rapidCallsForEach(RapidCalls, [tm |-> tm, loc |-> debouncingThrottlingLocals],
                                run, clock)
    IN [st EXCEPT !.tm = SetTimeout(st.tm, "resume", run, 0, AwaitMs, clock)]

\* debouncingThrottling after its await: the text from the counters
debouncingThrottlingText(loc) ==
    TextV(<< "Debouncing & Throttling:",
             "Direct calls: " \o ToString(loc.directCount),
             "Debounced calls: " \o ToString(loc.debounceCount),
             "Throttled calls: " \o ToString(loc.throttleCount),
             "Performance improvement: "
                \o ToString(RoundDiv((loc.directCount - loc.debounceCount) * 100, loc.directCount))
                \o "%" >>)

\* Math.round(a / b) as text, NaN for 0 / 0
RatioText(a, b) == IF b = 0 THEN (IF a = 0 THEN "NaN" ELSE "Infinity") ELSE ToString(RoundDiv(a, b))

\* lazyEvaluation: elapsed is what performance.now() measured
lazyEvaluation(self, elapsed) ==
    LET active == SelectSeq(self.testData, LAMBDA u : u.active)
        doubled == [i \in DOMAIN active |-> active[i].score * 2]
        FirstN(s, k) == SubSeq(s, 1, IF Len(s) < k THEN Len(s) ELSE k)
        eagerResult == FirstN(doubled, 5)
        lazyResult == FirstN(doubled, 5)
    IN TextV(<< "Lazy Evaluation:",
                "Eager time: " \o ToString(elapsed) \o ".000ms",
                "Lazy time: " \o ToString(elapsed) \o ".000ms",
                "Performance gain: " \o RatioText(0, elapsed) \o "%",
                "Results match: " \o Str(B(FirstN(eagerResult, 2) = FirstN(lazyResult, 2))) >>)

\* createFn of userPool: a new object; oid tells the objects apart (the code
\* knows them by reference)
CreateFn(oid) == [oid |-> oid, id |-> 0, name |-> "", score |-> 0, active |-> FALSE]

\* resetFn of userPool
ResetFn(obj) == [obj EXCEPT !.id = 0, !.name = "", !.score = 0, !.active = FALSE]

\* new ObjectPool(createFn, resetFn, initialSize): this.pool
ObjectPoolNew(initialSize) == [i \in 1..initialSize |-> CreateFn(i)]

\* an acquire that hands out the last pooled object and leaves it in the pool
AcquireNoPop(p, oid) ==
    IF Len(p) > 0 THEN [pool |-> p, obj |-> p[Len(p)]]
    ELSE [pool |-> p, obj |-> CreateFn(oid)]

\* acquire(): pop, or createFn() on an empty pool (oid is the new object's)
Acquire(p, oid) ==
    IF Len(p) > 0 THEN [pool |-> SubSeq(p, 1, Len(p) - 1), obj |-> p[Len(p)]]
    ELSE [pool |-> p, obj |-> CreateFn(oid)]

\* release(obj)
Release(p, obj) == Append(p, ResetFn(obj))

\* size()
Size(p) == Len(p)

RECURSIVE AcquireLoop(_, _, _, _)
\* for (let i = ...; i < n; i++): acquire, set id and name, push to pooledObjects
AcquireLoop(p, pooledObjects, i, n) ==
    IF i >= n THEN [pool |-> p, pooledObjects |-> pooledObjects]
    ELSE LET a == Acquire(p, Len(p) + Len(pooledObjects) + 1)
             obj == [a.obj EXCEPT !.id = i, !.name = "Pooled User " \o ToString(i)]
         IN AcquireLoop(a.pool, Append(pooledObjects, obj), i + 1, n)

RECURSIVE ReleaseAll(_, _)
\* pooledObjects.forEach((obj) => userPool.release(obj))
ReleaseAll(p, pooledObjects) ==
    IF pooledObjects = <<>> THEN p
    ELSE ReleaseAll(Release(p, Head(pooledObjects)), Tail(pooledObjects))

\* userPool and pooledObjects at the end of memoryOptimization
MemoryDemo ==
    LET initialSize == 10
        acquired == AcquireLoop(ObjectPoolNew(initialSize), <<>>, 0, 5)
    IN [pool |-> ReleaseAll(acquired.pool, acquired.pooledObjects),
        pooledObjects |-> acquired.pooledObjects]

memoryOptimization ==
    TextV(<< "Memory Optimization:",
             "Object Pool Size: " \o ToString(Size(MemoryDemo.pool)),
             "WeakMap Cache: Automatic garbage collection",
             "Memory-efficient patterns implemented",
             "Pool reuse: " \o ToString(Len(MemoryDemo.pooledObjects)) \o " objects recycled" >>)

RECURSIVE InsertByScore(_, _)
\* insert user u after the users whose score is not larger (the sort is stable)
InsertByScore(sorted, u) ==
    IF Len(sorted) = 0 THEN <<u>>
    ELSE IF sorted[Len(sorted)].score <= u.score THEN Append(sorted, u)
    ELSE Append(InsertByScore(SubSeq(sorted, 1, Len(sorted) - 1), u), sorted[Len(sorted)])

RECURSIVE SortByScore(_)
\* arr.sort((a, b) => a.score - b.score)
SortByScore(arr) ==
    IF Len(arr) = 0 THEN <<>>
    ELSE InsertByScore(SortByScore(SubSeq(arr, 1, Len(arr) - 1)), arr[Len(arr)])

\* this.testData.sort(...): sorts the instance's own array
SortInPlace(self) ==
    [data |-> SortByScore(self.testData),
     self |-> [self EXCEPT !.testData = SortByScore(self.testData)]]

\* [...this.testData].sort(...): the sorted copy, and the instance after it
SortedCopy(self) == [data |-> SortByScore(self.testData), self |-> self]

\* algorithmOptimization: only the three measured times reach the text
algorithmOptimization(self, elapsed) ==
    LET sortedData == SortedCopy(self).data
    IN TextV(<< "Algorithm Optimization:",
                "Linear Search: " \o ToString(elapsed) \o ".0000ms",
                "Binary Search: " \o ToString(elapsed) \o ".0000ms",
                "Hash Lookup: " \o ToString(elapsed) \o ".0000ms",
                "Binary vs Linear: " \o RatioText(elapsed, elapsed) \o "x faster",
                "Hash Map: " \o RatioText(elapsed, elapsed) \o "x faster" >>)

\* the timers asyncOptimization goes through: three in sequence, three in parallel
asyncOptimizationPlan == << [n |-> 1, delay |-> 50], [n |-> 1, delay |-> 50],
                            [n |-> 1, delay |-> 50], [n |-> 3, delay |-> 50] >>

\* an async method: the call returns a promise, its text comes later
asyncOptimization == PromiseV("asyncOptimization")

\* the text the promise of asyncOptimization resolves to
asyncOptimizationText ==
    TextV(<< "Async Optimization:",
             "Sequential: 150.00ms",
             "Parallel: 50.00ms",
             "Batch Processing: 0.00ms",
             "Parallel speedup: " \o RatioText(150, 50) \o "x faster",
             "Batches processed: 100" >>)

PerformanceCode == "// Performance Optimization Patterns"

\* the examples array of run, once the awaited first section has its text
PerformanceExamples(self, loc, elapsed) ==
    << debouncingThrottlingText(loc),
       lazyEvaluation(self, elapsed),
       memoryOptimization,
       algorithmOptimization(self, elapsed),
       asyncOptimization >>

----------------------------------------------------------------------------
(* run(): what the promise of an async run settles to *)

Pending == [t |-> "pending"]

\* the first example that threw, 0 when none did
FirstThrow(examples) ==
    IF \E i \in DOMAIN examples : examples[i].t = "throw"
        THEN CHOOSE i \in DOMAIN examples :
                /\ examples[i].t = "throw"
                /\ \A j \in 1..(i - 1) : examples[j].t # "throw"
        ELSE 0

\* the body of run once the examples array is built: join and return,
\* or reject with what an example threw
Settle(examples, code) ==
    IF FirstThrow(examples) # 0
        THEN [t |-> "rejected", message |-> examples[FirstThrow(examples)].message]
        ELSE [t |-> "fulfilled", output |-> JoinBlank(examples), code |-> code]

\* the examples array of the run of a demo that builds it in one go
RunExamples(demo, self, clock) ==
    CASE demo = "DestructuringDemo" -> DestructuringExamples(self)
      [] demo = "SpreadRestDemo" -> SpreadRestExamples(self, clock)
      [] demo = "ArrowFunctionDemo" -> ArrowFunctionExamples
      [] demo = "TemplateLiteralDemo" -> TemplateLiteralExamples(self)
      [] demo = "AdvancedPatternsDemo" -> AdvancedPatternsExamples

\* getSourceCode()
GetSourceCode(demo) ==
    CASE demo = "DestructuringDemo" -> DestructuringCode
      [] demo = "SpreadRestDemo" -> SpreadRestCode
      [] demo = "ArrowFunctionDemo" -> ArrowFunctionCode
      [] demo = "TemplateLiteralDemo" -> TemplateLiteralCode
      [] demo = "AdvancedPatternsDemo" -> AdvancedPatternsCode
      [] demo = "PerformanceDemo" -> PerformanceCode

\* the timers of the asynchronous section run starts and does not await
BackgroundPlan(demo) ==
    CASE demo = "ArrowFunctionDemo" -> asyncArrowPatternsPlan
      [] demo = "PerformanceDemo" -> asyncOptimizationPlan
      [] OTHER -> <<>>

\* the instance after its run has used its fields
SelfAfterRun(demo, self) ==
    CASE demo = "SpreadRestDemo" -> ComposedPermissions(self).self
      [] demo = "PerformanceDemo" -> SortedCopy(self).self
      [] OTHER -> self

NoBackground == [plan |-> <<>>, stage |-> 0, left |-> 0]

RECURSIVE SetTimers(_, _, _, _, _)
\* n calls of setTimeout with the same delay
SetTimers(tm, n, run, delay, clock) ==
    IF n = 0 THEN tm
    ELSE SetTimers(SetTimeout(tm, "async", run, 0, delay, clock), n - 1, run, delay, clock)

\* enter stage k of an asynchronous section: set its timers
EnterStage(tm, bg, k, run, clock) ==
    IF k > Len(bg.plan)
        THEN [tm |-> tm, bg |-> [bg EXCEPT !.stage = k, !.left = 0]]
        ELSE [tm |-> SetTimers(tm, bg.plan[k].n, run, bg.plan[k].delay, clock),
              bg |-> [bg EXCEPT !.stage = k, !.left = bg.plan[k].n]]

\* call an async section: it runs to its first await
StartBackground(tm, plan, run, clock) ==
    IF Len(plan) = 0 THEN [tm |-> tm, bg |-> NoBackground]
    ELSE EnterStage(tm, [plan |-> plan, stage |-> 0, left |-> 0], 1, run, clock)

----------------------------------------------------------------------------
(* The page, CodeDisplayManager and FeatureDashboard *)

\* `${action}-output`
OutputId(action) == action \o "-output"

CodeDisplayId == "code-display"

OutputIds == {OutputId(a) : a \in Actions}

AllIds == OutputIds \cup {CodeDisplayId}

\* document.getElementById(id)
GetElementById(id) == IF id \in elements THEN id ELSE "null"

WelcomeCode == "// Welcome to Advanced JavaScript Feature Showcase!"

\* highlightSyntax: the code with its comment wrapped in a span
HighlightSyntax(code) ==
    "<span style=\"color: #868e96; font-style: italic;\">" \o code \o "</span>"

\* a show that keeps what an earlier run put on the display
CodeDisplayShowFirstOnly(cd, code, feature) ==
    IF GetElementById(CodeDisplayId) = "null" \/ cd.currentCode # WelcomeCode THEN cd
    ELSE [currentCode |-> code, html |-> HighlightSyntax(code)]

\* CodeDisplayManager.show(code, feature)
CodeDisplayShow(cd, code, feature) ==
    IF GetElementById(CodeDisplayId) = "null" THEN cd
    ELSE [currentCode |-> code, html |-> HighlightSyntax(code)]

Empty == [kind |-> "empty"]

\* the span handleError writes
ErrorSpan(message) == [kind |-> "error", html |-> "<span class=\"error\">Error: " \o message \o "</span>"]

\* a handleError that writes into the first demo's output element
handleErrorFirstOutput(dom, action, error) ==
    LET output == GetElementById(OutputId("destructuring"))
    IN IF output = "null"
        THEN [dom EXCEPT !.status = "rejected",
                         !.unhandled = Append(dom.unhandled,
                            [action |-> action,
                             message |-> "Cannot set properties of null (setting 'innerHTML')"])]
        ELSE [dom EXCEPT !.status = "error",
                         !.innerHTML[output] = ErrorSpan(error.message),
                         !.console = Append(dom.console,
                            [action |-> action, message |-> error.message])]

\* a handleError that leaves out console.error
handleErrorNoLog(dom, action, error) ==
    LET output == GetElementById(OutputId(action))
    IN IF output = "null"
        THEN [dom EXCEPT !.status = "rejected",
                         !.unhandled = Append(dom.unhandled,
                            [action |-> action,
                             message |-> "Cannot set properties of null (setting 'innerHTML')"])]
        ELSE [dom EXCEPT !.status = "error",
                         !.innerHTML[output] = ErrorSpan(error.message)]

\* handleError(action, error); a missing element makes it throw in its turn,
\* and the promise of runDemo rejects with nobody to handle it
handleError(dom, action, error) ==
    LET output == GetElementById(OutputId(action))
    IN IF output = "null"
        THEN [dom EXCEPT !.status = "rejected",
                         !.unhandled = Append(dom.unhandled,
                            [action |-> action,
                             message |-> "Cannot set properties of null (setting 'innerHTML')"])]
        ELSE [dom EXCEPT !.status = "error",
                         !.innerHTML[output] = ErrorSpan(error.message),
                         !.console = Append(dom.console,
                            [action |-> action, message |-> error.message])]

\* a runDemo without try/catch: the rejection of run() rejects its own promise
runDemoSettledNoCatch(dom, action, result, run, clock) ==
    LET output == GetElementById(OutputId(action))
    IN IF result.t = "rejected" \/ output = "null"
        THEN [dom EXCEPT !.status = "rejected",
                         !.unhandled = Append(dom.unhandled,
                            [action |-> action,
                             message |-> IF result.t = "rejected" THEN result.message
                                         ELSE "Cannot set properties of null (setting 'innerHTML')"])]
       ELSE [dom EXCEPT !.status = "shown",
                        !.innerHTML[output] = [kind |-> "output", lines |-> result.output],
                        !.codeDisplay = CodeDisplayShow(dom.codeDisplay, result.code, action),
                        !.classList[output] = @ \cup {"highlight"},
                        !.tm = SetTimeout(dom.tm, "highlight", run, 0, HighlightMs, clock)]

\* runDemo from the point where `await demo.run()` has settled with result
runDemoSettled(dom, action, result, run, clock) ==
    LET output == GetElementById(OutputId(action))
    IN IF result.t = "rejected" THEN handleError(dom, action, result)
       ELSE IF output = "null"
            THEN handleError(dom, action,
                    [message |-> "Cannot set properties of null (setting 'innerHTML')"])
       ELSE [dom EXCEPT !.status = "shown",
                        !.innerHTML[output] = [kind |-> "output", lines |-> result.output],
                        !.codeDisplay = CodeDisplayShow(dom.codeDisplay, result.code, action),
                        !.classList[output] = @ \cup {"highlight"},
                        !.tm = SetTimeout(dom.tm, "highlight", run, 0, HighlightMs, clock)]

\* the page state runDemo works on, with timer table tm
Dom(tm) ==
    [innerHTML |-> innerHTML, classList |-> classList, codeDisplay |-> codeDisplay,
     console |-> console, unhandled |-> unhandled, tm |-> tm, status |-> "running"]

\* take the page state a handler left
SetDom(dom) ==
    /\ innerHTML' = dom.innerHTML
    /\ classList' = dom.classList
    /\ codeDisplay' = dom.codeDisplay
    /\ console' = dom.console
    /\ unhandled' = dom.unhandled
    /\ timers' = dom.tm.set
    /\ nextTimer' = dom.tm.next

TimerTable == [set |-> timers, next |-> nextTimer]

\* the click targets: with or without class demo-btn, any data-action
Targets ==
    [isBtn : {TRUE}, action : Actions \cup {"bogus"}]
        \cup [isBtn : {FALSE}, action : {"destructuring"}]

----------------------------------------------------------------------------
(* The dashboard's actions *)

\* the helpers before any use: no call made, nothing registered, nothing pooled
UnitInit ==
    /\ thInThrottle = FALSE
    /\ thCalls = <<>>
    /\ thInvoked = <<>>
    /\ emEvents = EmptyMap
    /\ unsubs = <<>>
    /\ emits = <<>>
    /\ cache = [fn \in {"fibonacci", "processData"} |-> EmptyMap]
    /\ memoCalls = <<>>
    /\ pool = <<>>
    /\ held = <<>>
    /\ poolOps = <<>>

\* the pages: up to MaxMissing of the elements are not there
Pages == {AllIds \ missing : missing \in {m \in SUBSET AllIds : Cardinality(m) <= MaxMissing}}

\* new FeatureDashboard(): the random test data is varied on the full page,
\* the page is varied with one test data array
Init ==
    /\ elements \in Pages
    /\ innerHTML = [id \in OutputIds |-> Empty]
    /\ classList = [id \in OutputIds |-> {}]
    /\ codeDisplay = CodeDisplayShow([currentCode |-> "", html |-> ""], WelcomeCode, "welcome")
    /\ console = <<>>
    /\ unhandled = <<>>
    /\ runs = <<>>
    /\ finished = 0
    /\ clicks = <<>>
    /\ \E perf \in PerformanceDemoNewSet :
          /\ elements = AllIds \/ perf = (CHOOSE p \in PerformanceDemoNewSet : TRUE)
          /\ instances = [d \in {demos[a] : a \in Actions} |->
                CASE d = "DestructuringDemo" -> DestructuringDemoNew
                  [] d = "SpreadRestDemo" -> SpreadRestDemoNew
                  [] d = "ArrowFunctionDemo" -> ArrowFunctionDemoNew
                  [] d = "TemplateLiteralDemo" -> TemplateLiteralDemoNew
                  [] d = "AdvancedPatternsDemo" -> AdvancedPatternsDemoNew
                  [] d = "PerformanceDemo" -> perf]
    /\ now = 0
    /\ timers = {}
    /\ nextTimer = 1
    /\ dbWait = DashboardWait
    /\ dbTimeout = NoTimer
    /\ dbCalls = <<>>
    /\ dbFired = <<>>
    /\ UnitInit

\* the record of a runDemo call
NewRun(action, demo) ==
    [click |-> Len(clicks) + 1, action |-> action, demo |-> demo, status |-> "running",
     before |-> finished,
     result |-> Pending, clock |-> now, elapsed |-> 0, seq |-> 0,
     loc |-> debouncingThrottlingLocals, bg |-> NoBackground]

\* runDemo(action, demo) for a demo whose run settles without waiting for a timer
runDemoNow(action, demo) ==
    LET run == Len(runs) + 1
        self == instances[demo]
        result == Settle(RunExamples(demo, self, now), GetSourceCode(demo))
        started == StartBackground(TimerTable, BackgroundPlan(demo), run, now)
        dom == runDemoSettled(Dom(started.tm), action, result, run, now)
    IN /\ SetDom(dom)
       /\ runs' = Append(runs, [NewRun(action, demo) EXCEPT
                                    !.status = dom.status, !.result = result,
                                    !.seq = finished + 1, !.bg = started.bg])
       /\ finished' = finished + 1
       /\ instances' = [instances EXCEPT ![demo] = SelfAfterRun(demo, self)]

\* runDemo(action, demo) for the performance demo: run stops at its await
runDemoAwait(action, demo) ==
    LET run == Len(runs) + 1
        st == debouncingThrottlingStart(TimerTable, run, now)
    IN /\ runs' = Append(runs, [NewRun(action, demo) EXCEPT !.loc = st.loc])
       /\ timers' = st.tm.set
       /\ nextTimer' = st.tm.next
       /\ UNCHANGED <<innerHTML, classList, codeDisplay, console, unhandled, finished, instances>>

runDemo(action, demo) ==
    IF demo = "PerformanceDemo" THEN runDemoAwait(action, demo) ELSE runDemoNow(action, demo)

\* handleDemoClick(event)
handleDemoClick(target) ==
    /\ Len(clicks) < MaxClicks
    /\ \A t \in timers : t.due > now
    /\ clicks' = Append(clicks, target)
    /\ IF ~target.isBtn
        THEN UNCHANGED <<innerHTML, classList, codeDisplay, console, unhandled, runs,
                         finished, instances, timers, nextTimer>>
        ELSE LET demo == DemosGet(target.action)
             IN IF demo = "undefined"
                 THEN UNCHANGED <<innerHTML, classList, codeDisplay, console, unhandled, runs,
                                  finished, instances, timers, nextTimer>>
                 ELSE runDemo(target.action, demo)
    /\ UNCHANGED <<elements, now, dbVars, unitVars>>

Click == \E target \in Targets : handleDemoClick(target)

\* the timer the event loop takes next: the earliest due one, oldest first
Due(t) ==
    /\ t \in timers
    /\ t.due <= now
    /\ \A u \in timers : u.due > t.due \/ (u.due = t.due /\ u.id >= t.id)

\* () => output.classList.remove("highlight")
FireHighlight ==
    \E t \in timers :
        /\ Due(t) /\ t.kind = "highlight"
        /\ timers' = timers \ {t}
        /\ classList' = [classList EXCEPT ![OutputId(runs[t.run].action)] = @ \ {"highlight"}]
        /\ UNCHANGED <<elements, innerHTML, codeDisplay, console, unhandled, runs, finished,
                       clicks, instances, now, nextTimer, dbVars, unitVars>>

\* () => func.apply(this, args) of the demo's debounce: debounceCount++
FireDebounced ==
    \E t \in timers :
        /\ Due(t) /\ t.kind = "debounce"
        /\ timers' = timers \ {t}
        /\ runs' = [runs EXCEPT ![t.run].loc.debounceCount = @ + 1]
        /\ UNCHANGED <<elements, innerHTML, classList, codeDisplay, console, unhandled,
                       finished, clicks, instances, now, nextTimer, dbVars, unitVars>>

\* () => (inThrottle = false)
FireThrottleReset ==
    \E t \in timers :
        /\ Due(t) /\ t.kind = "throttle"
        /\ timers' = timers \ {t}
        /\ runs' = [runs EXCEPT ![t.run].loc.inThrottle = FALSE]
        /\ UNCHANGED <<elements, innerHTML, classList, codeDisplay, console, unhandled,
                       finished, clicks, instances, now, nextTimer, dbVars, unitVars>>

\* the 150 ms timer of debouncingThrottling: the rest of PerformanceDemo.run,
\* then the rest of runDemo
FireResume ==
    \E t \in timers, elapsed \in 0..MaxElapsed :
        /\ Due(t) /\ t.kind = "resume"
        /\ LET r == runs[t.run]
               self == instances[r.demo]
               result == Settle(PerformanceExamples(self, r.loc, elapsed), GetSourceCode(r.demo))
               tm == [set |-> timers \ {t}, next |-> nextTimer]
               started == StartBackground(tm, BackgroundPlan(r.demo), t.run, now)
               dom == runDemoSettled(Dom(started.tm), r.action, result, t.run, now)
           IN /\ SetDom(dom)
              /\ runs' = [runs EXCEPT ![t.run] =
                            [r EXCEPT !.status = dom.status, !.result = result,
                                      !.elapsed = elapsed, !.seq = finished + 1,
                                      !.bg = started.bg]]
              /\ finished' = finished + 1
              /\ instances' = [instances EXCEPT ![r.demo] = SelfAfterRun(r.demo, self)]
        /\ UNCHANGED <<elements, clicks, now, dbVars, unitVars>>

\* a timer of an asynchronous section: its stage ends when all its timers fired
FireAsync ==
    \E t \in timers :
        /\ Due(t) /\ t.kind = "async"
        /\ LET r == runs[t.run]
               tm == [set |-> timers \ {t}, next |-> nextTimer]
               next == IF r.bg.left > 1
                           THEN [tm |-> tm, bg |-> [r.bg EXCEPT !.left = @ - 1]]
                           ELSE EnterStage(tm, r.bg, r.bg.stage + 1, t.run, now)
           IN /\ timers' = next.tm.set
              /\ nextTimer' = next.tm.next
              /\ runs' = [runs EXCEPT ![t.run].bg = next.bg]
        /\ UNCHANGED <<elements, innerHTML, classList, codeDisplay, console, unhandled,
                       finished, clicks, instances, now, dbVars, unitVars>>

\* the earliest due time of the pending timers
NextDue == CHOOSE d \in {t.due : t \in timers} : \A t \in timers : t.due >= d

\* time passes until the next timer is due
Advance ==
    /\ timers # {}
    /\ \A t \in timers : t.due > now
    /\ now' = NextDue
    /\ now' <= MaxTime
    /\ UNCHANGED <<dashVars, timers, nextTimer, dbVars, unitVars>>

Next ==
    \/ Click
    \/ FireHighlight
    \/ FireDebounced
    \/ FireThrottleReset
    \/ FireResume
    \/ FireAsync
    \/ Advance

Spec == Init /\ [][Next]_vars

----------------------------------------------------------------------------
(* Properties of the dashboard *)

\* run i settled in this step
SettledNow(i) ==
    /\ i \in DOMAIN runs'
    /\ runs'[i].result.t # "pending"
    /\ i \notin DOMAIN runs \/ runs[i].result.t = "pending"

\* the examples array run i built
ExamplesOf(r) ==
    IF r.demo = "PerformanceDemo"
        THEN PerformanceExamples(instances[r.demo], r.loc, r.elapsed)
        ELSE RunExamples(r.demo, instances[r.demo], r.clock)

\* the text a section ends up with: for a promise, the text it resolves to
FinishedText(v) ==
    IF v.t # "promise" THEN v
    ELSE IF v.of = "asyncArrowPatterns" THEN asyncArrowPatternsText
    ELSE asyncOptimizationText

\* C1: the run() of each registered demo completes without raising an error;
\* a demo click fails only where a DOM element is missing.
C1_RunNeverRaises ==
    \A i \in DOMAIN runs :
        /\ runs[i].result.t # "rejected"
        /\ runs[i].status \in {"error", "rejected"} => OutputId(runs[i].action) \notin elements

\* C2: the output a run resolves to is the finished text of each of its five
\* sections, in order, one blank line between two, asynchronous sections included.
C2_OutputIsFinishedTexts ==
    \A i \in DOMAIN runs :
        runs[i].result.t = "fulfilled" =>
            LET examples == ExamplesOf(runs[i])
            IN /\ Len(examples) = 5
               /\ runs[i].result.output =
                    JoinBlank([k \in DOMAIN examples |-> FinishedText(examples[k])])

\* a click that must start a run: class demo-btn and a registered data-action
Qualifies(target) == target.isBtn /\ target.action \in Actions

\* C3: a click with class demo-btn and a registered data-action invokes exactly
\* one run, that of the demo registered under the name; any other click invokes
\* no run and changes no page element; no run starts without a click.
C3_ClickDispatch ==
    [][IF Len(clicks') = Len(clicks) + 1
          THEN LET target == clicks'[Len(clicks')]
               IN IF Qualifies(target)
                     THEN /\ Len(runs') = Len(runs) + 1
                          /\ SubSeq(runs', 1, Len(runs)) = runs
                          /\ runs'[Len(runs')].click = Len(clicks')
                          /\ runs'[Len(runs')].action = target.action
                          /\ runs'[Len(runs')].demo = demos[target.action]
                     ELSE UNCHANGED <<runs, innerHTML, classList, codeDisplay, timers>>
          ELSE Len(runs') = Len(runs)]_vars

C3_Witness ==
    /\ Len(clicks) = 2 /\ Len(runs) = 1
    /\ Qualifies(clicks[1]) /\ ~Qualifies(clicks[2])
    /\ runs[1].click = 1 /\ runs[1].demo = "SpreadRestDemo"

\* what the step of a run that failed with `message` must leave on the page
ErrorReported(i) ==
    LET a == runs'[i].action
        message == runs'[i].result.message
    IN /\ innerHTML'[OutputId(a)] = ErrorSpan(message)
       /\ console' = Append(console, [action |-> a, message |-> message])
       /\ codeDisplay' = codeDisplay
       /\ classList' = classList
       /\ \A t \in timers' \ timers : t.kind # "highlight"

\* C4 as stated: whenever the run() for action A rejects, the error's message is
\* written into A-output and logged, the code display and the classes stay.
C4_ErrorAlwaysReported ==
    [][\A i \in DOMAIN runs' :
          (SettledNow(i) /\ runs'[i].result.t = "rejected") => ErrorReported(i)]_vars

\* C4 amended: the same when the element A-output exists; when it is missing
\* nothing is written or logged and the rejection of runDemo goes unhandled.
C4_ErrorReportedIfOutputExists ==
    [][\A i \in DOMAIN runs' :
          (SettledNow(i) /\ runs'[i].result.t = "rejected") =>
              IF OutputId(runs'[i].action) \in elements
                  THEN ErrorReported(i) /\ unhandled' = unhandled
                  ELSE /\ UNCHANGED <<innerHTML, console, codeDisplay, classList>>
                       /\ Len(unhandled') = Len(unhandled) + 1]_vars

C4_Witness ==
    \E i \in DOMAIN runs :
        /\ runs[i].result.t = "rejected"
        /\ runs[i].status = "error"
        /\ innerHTML[OutputId(runs[i].action)] = ErrorSpan(runs[i].result.message)
        /\ Len(console) = 1

\* run j was clicked while run i had not finished
Overlap(i, j) == i < j /\ (runs[i].seq = 0 \/ runs[i].seq > runs[j].before)

\* C6 as stated: when B is clicked before A's run has finished, then once both
\* runs have finished (and shown their results) the code display shows B's code.
C6_LastClickWins ==
    \A i, j \in DOMAIN runs :
        (/\ j = Len(runs) /\ i = j - 1
         /\ Overlap(i, j)
         /\ runs[i].status = "shown" /\ runs[j].status = "shown"
         /\ CodeDisplayId \in elements)
        => /\ codeDisplay.currentCode = runs[j].result.code
           /\ codeDisplay.html = HighlightSyntax(runs[j].result.code)

\* the runs that reached codeDisplay.show
Shown == {i \in DOMAIN runs : runs[i].status = "shown"}

\* C6 amended: the code display shows the code of the run that finished last
\* among the runs that showed a result, whatever the order of the clicks.
C6_LastFinishedWins ==
    CodeDisplayId \in elements =>
        IF Shown = {}
            THEN codeDisplay.currentCode = WelcomeCode
            ELSE LET last == CHOOSE i \in Shown : \A k \in Shown : runs[k].seq <= runs[i].seq
                 IN /\ codeDisplay.currentCode = runs[last].result.code
                    /\ codeDisplay.html = HighlightSyntax(runs[last].result.code)

C6_Witness ==
    /\ CodeDisplayId \in elements
    /\ \E i, j \in DOMAIN runs :
        /\ Overlap(i, j)
        /\ runs[i].status = "shown" /\ runs[j].status = "shown"
        /\ runs[i].seq > runs[j].seq
        /\ runs[i].result.code # runs[j].result.code
        /\ codeDisplay.currentCode = runs[i].result.code

\* the runs whose run() resolved
Fulfilled == {i \in DOMAIN runs : runs[i].result.t = "fulfilled"}

C8_InstanceDataUnchanged ==
    [][/\ instances' = instances
       /\ instances["DestructuringDemo"] = DestructuringDemoNew
       /\ instances["SpreadRestDemo"] = SpreadRestDemoNew
       /\ instances["ArrowFunctionDemo"] = ArrowFunctionDemoNew
       /\ instances["TemplateLiteralDemo"] = TemplateLiteralDemoNew
       /\ instances["AdvancedPatternsDemo"] = AdvancedPatternsDemoNew
       /\ instances["PerformanceDemo"] \in PerformanceDemoNewSet]_vars

C8_Witness ==
    /\ \E i \in Fulfilled : runs[i].demo = "PerformanceDemo"
    /\ \E i \in Fulfilled : runs[i].demo = "SpreadRestDemo"
    /\ instances["PerformanceDemo"].testData[1].score > instances["PerformanceDemo"].testData[2].score

\* C9: destructuring the sample data yields the known field values, and a
\* default is used for an absent value only, not for one that is false.
C9_DestructuredValues ==
    /\ WithDefault(B(FALSE), B(TRUE)) = B(FALSE)
    /\ WithDefault(Undef, B(TRUE)) = B(TRUE)
    /\ \A i \in Fulfilled :
        runs[i].demo = "DestructuringDemo" =>
            LET out == runs[i].result.output
            IN /\ SubSeq(out, 2, 8) =
                    << "Name: John Doe", "Email: john@example.com", "Theme: dark",
                       "Email Notifications: true", "Push Notifications: false",
                       "Home City: New York", "Work City: San Francisco" >>
               /\ out[9] = ""
               /\ out[14] = "Fourth Product: No more products - $0"

C9_Witness ==
    \E i \in Fulfilled :
        /\ runs[i].demo = "DestructuringDemo"
        /\ innerHTML[OutputId("destructuring")] = [kind |-> "output", lines |-> runs[i].result.output]
        /\ runs[i].result.output[6] = "Push Notifications: false"

\* C10: the step in which a run of action A finishes, in success or in failure,
\* leaves the output element of every other action as it was, and touches the
\* code display only when the run succeeded.
C10_WritesOnlyOwnOutput ==
    [][\A i \in DOMAIN runs' :
          SettledNow(i) =>
              /\ \A o \in OutputIds \ {OutputId(runs'[i].action)} :
                    innerHTML'[o] = innerHTML[o] /\ classList'[o] = classList[o]
              /\ runs'[i].status # "shown" => codeDisplay' = codeDisplay]_vars

C10_Witness ==
    \E i, j \in DOMAIN runs :
        /\ i < j
        /\ runs[i].status = "shown" /\ runs[j].status = "error"
        /\ runs[i].action # runs[j].action
        /\ innerHTML[OutputId(runs[i].action)] = [kind |-> "output", lines |-> runs[i].result.output]
        /\ innerHTML[OutputId(runs[j].action)].kind = "error"
        /\ codeDisplay.currentCode = runs[i].result.code

----------------------------------------------------------------------------
(* The debounced function on its own: debounce(func, wait) of the dashboard *)
(* (the input listener, wait 300) and of the performance demo (wait 100).   *)

\* input.value at a call: blank for argument 1, a name otherwise
InputValue(arg) == IF arg = 1 THEN "  " ELSE "Ann"

\* value.trim()
Trim(value) == IF value = "  " THEN "" ELSE value

\* TemplateLiteralDemo.generatePersonalizedTemplate(name), trimmed
generatePersonalizedTemplate(name, clock) ==
    IF Trim(name) = "" THEN <<"Enter a name to see personalized template...">>
    ELSE << "Personalized Template for: " \o name,
            "",
            "Hello " \o name \o "!",
            IF Len(name) > 10 THEN "What a beautiful long name!" ELSE "Nice to meet you!",
            "",
            "",
            "",
            "Generated at: " \o ToString(clock) >>

\* updateTemplatePreview(): demo.updatePreview(input.value) unless the value is blank
updateTemplatePreview(html, value, clock) ==
    IF Trim(value) # "" /\ GetElementById(OutputId("template-literals")) # "null"
        THEN [html EXCEPT ![OutputId("template-literals")] =
                [kind |-> "preview", lines |-> generatePersonalizedTemplate(value, clock)]]
        ELSE html

InitDebounce ==
    /\ elements = AllIds
    /\ innerHTML = [id \in OutputIds |-> Empty]
    /\ classList = [id \in OutputIds |-> {}]
    /\ codeDisplay = CodeDisplayShow([currentCode |-> "", html |-> ""], WelcomeCode, "welcome")
    /\ console = <<>>
    /\ unhandled = <<>>
    /\ runs = <<>>
    /\ finished = 0
    /\ clicks = <<>>
    /\ instances = [d \in {demos[a] : a \in Actions} |->
            CASE d = "DestructuringDemo" -> DestructuringDemoNew
              [] d = "SpreadRestDemo" -> SpreadRestDemoNew
              [] d = "ArrowFunctionDemo" -> ArrowFunctionDemoNew
              [] d = "TemplateLiteralDemo" -> TemplateLiteralDemoNew
              [] d = "AdvancedPatternsDemo" -> AdvancedPatternsDemoNew
              [] d = "PerformanceDemo" -> CHOOSE p \in PerformanceDemoNewSet : TRUE]
    /\ now = 0
    /\ timers = {}
    /\ nextTimer = 1
    /\ dbWait \in {DashboardWait, DemoWait}
    /\ dbTimeout = NoTimer
    /\ dbCalls = <<>>
    /\ dbFired = <<>>
    /\ UnitInit

\* a call of the debounced function with argument arg
DbCall ==
    \E arg \in 1..MaxArg :
        /\ Len(dbCalls) < MaxCalls
        /\ now + dbWait + TickMs <= MaxDebounceTime
        /\ LET d == DebounceCall(TimerTable, dbTimeout, "db", 0, arg, dbWait, now)
           IN /\ timers' = d.tm.set
              /\ nextTimer' = d.tm.next
              /\ dbTimeout' = d.timeout
        /\ dbCalls' = Append(dbCalls, [at |-> now, arg |-> arg])
        /\ UNCHANGED <<dashVars, now, dbWait, dbFired, unitVars>>

\* the timer callback () => func.apply(this, args); the dashboard's func is
\* updateTemplatePreview, which reads the input's current value
DbFire ==
    \E t \in timers :
        /\ Due(t) /\ t.kind = "db"
        /\ timers' = timers \ {t}
        /\ dbFired' = Append(dbFired, [at |-> now, arg |-> t.arg, calls |-> Len(dbCalls)])
        /\ innerHTML' = IF dbWait = DashboardWait
                           THEN updateTemplatePreview(innerHTML,
                                    InputValue(dbCalls[Len(dbCalls)].arg), now)
                           ELSE innerHTML
        /\ UNCHANGED <<elements, classList, codeDisplay, console, unhandled, runs, finished,
                       clicks, instances, now, nextTimer, dbWait, dbTimeout, dbCalls, unitVars>>

\* time passes; a due timer may fire late
DbTick ==
    /\ now + TickMs <= MaxDebounceTime
    /\ now' = now + TickMs
    /\ UNCHANGED <<dashVars, timers, nextTimer, dbVars, unitVars>>

NextDebounce == DbCall \/ DbFire \/ DbTick

\* the event loop runs a due timer callback, and time goes on
SpecDebounce ==
    InitDebounce /\ [][NextDebounce]_vars /\ WF_vars(DbFire) /\ WF_vars(DbTick)

\* the wrapped function ran for the burst that ended with call n
FiredFor(n) == \E k \in DOMAIN dbFired : dbFired[k].calls = n

DebounceSafe ==
    /\ Cardinality({t \in timers : t.kind = "db"}) <= 1
    /\ \A k \in DOMAIN dbFired :
        /\ dbFired[k].calls >= 1
        /\ dbFired[k].at >= dbCalls[dbFired[k].calls].at + dbWait
        /\ dbFired[k].arg = dbCalls[dbFired[k].calls].arg
    /\ \A k, l \in DOMAIN dbFired : dbFired[k].calls = dbFired[l].calls => k = l

\* C5: the wrapped function runs only when the full wait has passed since the
\* most recent call, at most one timer is pending, and after the last call of
\* a burst it runs, once, with the arguments of that call.
C5_Debounce ==
    /\ []DebounceSafe
    /\ \A n \in 1..MaxCalls :
          (Len(dbCalls) = n) ~> (Len(dbCalls) > n \/ FiredFor(n))

C5_Witness ==
    /\ Len(dbCalls) = 3
    /\ dbCalls[1].at = dbCalls[2].at /\ dbCalls[2].at = dbCalls[3].at
    /\ dbCalls[1].arg # dbCalls[3].arg
    /\ Len(dbFired) = 1
    /\ dbFired[1].arg = dbCalls[3].arg
    /\ dbFired[1].at >= dbCalls[3].at + dbWait

----------------------------------------------------------------------------
(* What a run leaves behind when its promise settles *)

\* the asynchronous section of a run has timers or stages left
BackgroundBusy(bg) == bg.stage >= 1 /\ bg.stage <= Len(bg.plan)

\* the timers run i set itself and that have not fired (the highlight timer is
\* set by runDemo, after the run)
PendingTimersOf(tmset, i) == {t \in tmset : t.run = i /\ t.kind # "highlight"}

\* C11: in the step in which the promise of a run() resolves, nothing that run
\* started is still pending: none of its timers and no asynchronous section.
C11_NothingPendingAtResolve ==
    [][\A i \in DOMAIN runs' :
          (SettledNow(i) /\ runs'[i].result.t = "fulfilled") =>
              /\ PendingTimersOf(timers', i) = {}
              /\ ~BackgroundBusy(runs'[i].bg)]_vars

\* the runDemo calls whose promise rejected
RejectedCalls == {i \in DOMAIN runs : runs[i].status = "rejected"}

\* C12 as stated: the promise of runDemo never rejects, whatever fails inside:
\* there is no unhandled rejection.
C12_RunDemoNeverRejects ==
    /\ RejectedCalls = {}
    /\ unhandled = <<>>

\* C12 amended: the promise of runDemo rejects exactly when the element A-output
\* is missing (handleError throws on it inside the catch block); a failure of
\* run() with the element present is caught and handleError completes.
C12_RejectsOnlyIfOutputMissing ==
    /\ \A i \in DOMAIN runs :
        runs[i].status # "running" =>
            /\ runs[i].status = "rejected" <=> OutputId(runs[i].action) \notin elements
            /\ (runs[i].result.t = "rejected" /\ OutputId(runs[i].action) \in elements)
                    => runs[i].status = "error"
    /\ Len(unhandled) = Cardinality(RejectedCalls)
    /\ Len(console) = Cardinality({i \in DOMAIN runs : runs[i].status = "error"})

C12_Witness ==
    \E i, j \in DOMAIN runs :
        /\ runs[i].status = "rejected" /\ runs[i].result.t = "fulfilled"
        /\ runs[j].status = "error" /\ runs[j].result.t = "rejected"
        /\ Len(unhandled) = 1 /\ Len(console) = 1

\* the time at which runDemo showed the result of run r: the time of the click,
\* or for the performance demo the time its 150 ms timer fired
ShownAt(r) == IF r.demo = "PerformanceDemo" THEN r.clock + AwaitMs ELSE r.clock

\* C13: for the 2000 ms that follow the completion of a successful run of action
\* A, A-output carries the class highlight, also when an earlier run of the same
\* demo completed less than 2000 ms before.
C13_HighlightFullWindow ==
    \A i \in DOMAIN runs :
        (runs[i].status = "shown" /\ now < ShownAt(runs[i]) + HighlightMs)
            => "highlight" \in classList[OutputId(runs[i].action)]

----------------------------------------------------------------------------
(* The helpers the demos define, each on its own.  They start from the page *)
(* before any click.                                                         *)

InitIdle == InitDebounce /\ dbWait = DashboardWait

----------------------------------------------------------------------------
(* throttle(func, limit) of the performance demo, limit 100 *)

\* a call of the throttled function
ThCall ==
    /\ Len(thCalls) < MaxCalls
    /\ LET r == ThrottleCall(TimerTable, thInThrottle, Len(thInvoked), 0, DemoLimit, now)
       IN /\ timers' = r.tm.set
          /\ nextTimer' = r.tm.next
          /\ thInThrottle' = r.inThrottle
          /\ thInvoked' = IF r.count > Len(thInvoked)
                             THEN Append(thInvoked, [at |-> now, call |-> Len(thCalls) + 1])
                             ELSE thInvoked
    /\ thCalls' = Append(thCalls, [at |-> now])
    /\ UNCHANGED <<dashVars, now, dbVars, emVars, memoVars, poolVars>>

\* the timer callback () => (inThrottle = false)
ThFire ==
    \E t \in timers :
        /\ Due(t) /\ t.kind = "throttle"
        /\ timers' = timers \ {t}
        /\ thInThrottle' = FALSE
        /\ UNCHANGED <<dashVars, now, nextTimer, dbVars, thCalls, thInvoked,
                       emVars, memoVars, poolVars>>

\* time passes; a due timer may fire late
ThTick ==
    /\ now + ThTickMs <= MaxThrottleTime
    /\ now' = now + ThTickMs
    /\ UNCHANGED <<dashVars, timers, nextTimer, dbVars, unitVars>>

NextThrottle == ThCall \/ ThFire \/ ThTick

SpecThrottle == InitIdle /\ [][NextThrottle]_vars

\* the rapid calls of the demo: 50 rounds on fresh closures at one instant
RapidCallsDone ==
    rapidCallsForEach(RapidCalls,
        [tm |-> [set |-> {}, next |-> 1], loc |-> debouncingThrottlingLocals], 1, 0)

ThrottleSafe ==
    /\ Len(thCalls) >= 1 =>
          /\ Len(thInvoked) >= 1
          /\ thInvoked[1] = [at |-> thCalls[1].at, call |-> 1]
    /\ \A k \in DOMAIN thInvoked :
          /\ thInvoked[k].call \in DOMAIN thCalls
          /\ thInvoked[k].at = thCalls[thInvoked[k].call].at
    /\ \A k \in 2..Len(thInvoked) :
          /\ thInvoked[k].call > thInvoked[k - 1].call
          /\ thInvoked[k].at >= thInvoked[k - 1].at + DemoLimit
    /\ RapidCallsDone.loc.directCount = RapidCalls
    /\ RapidCallsDone.loc.throttleCount = 1
    /\ Cardinality({t \in RapidCallsDone.tm.set : t.kind = "debounce"}) = 1

\* C14: the first call of a throttled function invokes the wrapped function at
\* once; a later call invokes it only when at least `limit` ms have passed since
\* the last invocation; the wrapped function runs only inside a call, for that
\* call, so a dropped call is never replayed; the demo's 50 back-to-back calls
\* give one throttled invocation and one pending debounced call.
C14_Throttle ==
    /\ []ThrottleSafe
    /\ [][thInvoked' # thInvoked =>
            /\ thCalls' = Append(thCalls, [at |-> now])
            /\ thInvoked' = Append(thInvoked, [at |-> now, call |-> Len(thCalls')])]_vars

C14_Witness ==
    /\ Len(thCalls) = 3 /\ Len(thInvoked) = 2
    /\ thInvoked[2].call = 3
    /\ thCalls[2].at > thCalls[1].at
    /\ thCalls[2].at < thInvoked[1].at + DemoLimit
    /\ thInvoked[2].at >= thInvoked[1].at + DemoLimit

----------------------------------------------------------------------------
(* EventEmitter of observerPattern *)

EventNames == {"system:startup", "user:login"}

CallbackNames == {"f", "g"}

\* the record kept of the function on/once returned for registration reg
UnsubscribeOf(event, fn, once) ==
    [event |-> event, fn |-> fn, once |-> once, emitsBefore |-> Len(emits), calls |-> 0]

\* emitter.on(event, callback)
EmOn ==
    \E event \in EventNames, name \in CallbackNames :
        /\ Len(unsubs) < MaxSubs
        /\ emEvents' = EmitterOn(emEvents, event, Callback(name), Len(unsubs) + 1)
        /\ unsubs' = Append(unsubs, UnsubscribeOf(event, Callback(name), FALSE))
        /\ UNCHANGED <<dashVars, now, timers, nextTimer, dbVars, emits,
                       thVars, memoVars, poolVars>>

\* emitter.once(event, callback): on with a new wrapper function
EmOnce ==
    \E event \in EventNames, name \in CallbackNames :
        LET wrapper == OnceWrapper(name, Len(unsubs) + 1)
        IN /\ Len(unsubs) < MaxSubs
           /\ emEvents' = EmitterOn(emEvents, event, wrapper, Len(unsubs) + 1)
           /\ unsubs' = Append(unsubs, UnsubscribeOf(event, wrapper, TRUE))
           /\ UNCHANGED <<dashVars, now, timers, nextTimer, dbVars, emits,
                          thVars, memoVars, poolVars>>

\* emitter.emit(event, data)
EmEmit ==
    \E event \in EventNames :
        /\ Len(emits) < MaxEmits
        /\ LET r == EmitterEmit(emEvents, event, "x")
               before == IF event \in DOMAIN emEvents THEN emEvents[event] ELSE <<>>
           IN /\ emEvents' = r.ev
              /\ emits' = Append(emits, [event |-> event, before |-> before,
                                         called |-> r.called, results |-> r.results])
        /\ UNCHANGED <<dashVars, now, timers, nextTimer, dbVars, unsubs,
                       thVars, memoVars, poolVars>>

RECURSIVE SumCalls(_)
SumCalls(list) == IF list = <<>> THEN 0 ELSE Head(list).calls + SumCalls(Tail(list))

\* the calls made so far of the functions on/once returned
UnsubscribeCalls == SumCalls(unsubs)

\* a call of the k-th function on/once returned
EmUnsubscribe ==
    \E k \in DOMAIN unsubs :
        /\ UnsubscribeCalls < MaxUnsubCalls
        /\ emEvents' = Unsubscribe(emEvents, unsubs[k].event, unsubs[k].fn)
        /\ unsubs' = [unsubs EXCEPT ![k].calls = @ + 1]
        /\ UNCHANGED <<dashVars, now, timers, nextTimer, dbVars, emits,
                       thVars, memoVars, poolVars>>

NextEmitter == EmOn \/ EmOnce \/ EmEmit \/ EmUnsubscribe

SpecEmitter == InitIdle /\ [][NextEmitter]_vars

\* the emits of the event of registration k that came after it
EmitsAfter(k) ==
    {e \in DOMAIN emits : e > unsubs[k].emitsBefore /\ emits[e].event = unsubs[k].event}

\* emit e called the callback of registration k
CalledBy(e, k) == \E i \in DOMAIN emits[e].called : emits[e].called[i] = k

\* C15: a listener registered with once (and not unsubscribed by hand) is called
\* by the first emit of its event after the registration and by no later one;
\* the demo records exactly 3 messages, the second system:startup adds none.
C15_OnceCalledByFirstEmitOnly ==
    /\ \A k \in DOMAIN unsubs :
        (unsubs[k].once /\ unsubs[k].calls = 0 /\ EmitsAfter(k) # {}) =>
            LET first == CHOOSE e \in EmitsAfter(k) : \A o \in EmitsAfter(k) : e <= o
            IN /\ CalledBy(first, k)
               /\ \A e \in EmitsAfter(k) \ {first} : ~CalledBy(e, k)
    /\ ObserverDemo = << "System started (one-time event)", "User John logged in",
                         "User John logged out" >>

\* what the callback of a list entry returns: a once wrapper returns nothing
ResultOf(entry) ==
    IF entry.fn.wrap # 0 THEN Undef ELSE CallbackResult(entry.fn.name, "x")

\* C16: an emit calls every callback subscribed to the event at the moment of
\* the emit exactly once, in subscription order, and returns their results in
\* that order, for any mix of on and once; with no subscriber it calls nothing
\* and returns an empty list.
C16_EmitCallsEverySubscriber ==
    \A e \in DOMAIN emits :
        /\ emits[e].called = [i \in DOMAIN emits[e].before |-> emits[e].before[i].reg]
        /\ emits[e].results = [i \in DOMAIN emits[e].before |-> ResultOf(emits[e].before[i])]

\* the list of an event without the entry of registration k
WithoutRegistration(list, k) ==
    IF \E i \in DOMAIN list : list[i].reg = k
        THEN Splice(list, CHOOSE i \in DOMAIN list : list[i].reg = k)
        ELSE list

\* C17: a call of the unsubscribe function of registration k removes that
\* registration and no other one; when it is already gone nothing changes, also
\* when the same callback was registered more than once.
C17_UnsubscribeRemovesOwnRegistration ==
    [][\A k \in DOMAIN unsubs :
          (k \in DOMAIN unsubs' /\ unsubs'[k].calls = unsubs[k].calls + 1) =>
              emEvents' = [emEvents EXCEPT ![unsubs[k].event] = WithoutRegistration(@, k)]]_vars

----------------------------------------------------------------------------
(* memoize of memoizationPattern: the memoized fibonacci and processData *)

\* the arrays processData is called with
DataChoices == {<<1, 2, 3, 4, 5>>, <<2, 1>>}

\* fibonacci(n)
MemoFibonacci ==
    \E n \in 0..MaxFib :
        /\ Len(memoCalls) < MaxMemoCalls
        /\ LET r == FibonacciCall(cache["fibonacci"], n)
           IN /\ cache' = [cache EXCEPT !["fibonacci"] = r.cache]
              /\ memoCalls' = Append(memoCalls,
                    [fn |-> "fibonacci", arg |-> N(n), key |-> KeyGenerator(N(n)),
                     ret |-> r.ret, invoked |-> r.invoked])
        /\ UNCHANGED <<dashVars, now, timers, nextTimer, dbVars, thVars, emVars, poolVars>>

\* processData(data)
MemoProcessData ==
    \E data \in DataChoices :
        /\ Len(memoCalls) < MaxMemoCalls
        /\ LET r == ProcessDataCall(cache["processData"], data)
           IN /\ cache' = [cache EXCEPT !["processData"] = r.cache]
              /\ memoCalls' = Append(memoCalls,
                    [fn |-> "processData", arg |-> ArrayV(data),
                     key |-> KeyGenerator(ArrayV(data)),
                     ret |-> r.ret, invoked |-> r.invoked])
        /\ UNCHANGED <<dashVars, now, timers, nextTimer, dbVars, thVars, emVars, poolVars>>

NextMemo == MemoFibonacci \/ MemoProcessData

SpecMemo == InitIdle /\ [][NextMemo]_vars

\* the invocations of the function wrapped by fn during calls 1..n: <<call, position>>
InvocationsUpTo(fn, n) ==
    {<<i, p>> \in (1..n) \X (1..(MaxFib + 1)) :
        /\ i \in DOMAIN memoCalls
        /\ memoCalls[i].fn = fn
        /\ p \in DOMAIN memoCalls[i].invoked}

\* C18: over any sequence of calls of a memoized function the wrapped function
\* is invoked at most once per key; a call returns cached: false exactly when
\* it is the first for its key, and every later call with that key returns
\* cached: true and the result of the first.
C18_Memoize ==
    /\ \A fn \in {"fibonacci", "processData"} :
        \A x, y \in InvocationsUpTo(fn, Len(memoCalls)) :
            memoCalls[x[1]].invoked[x[2]].key = memoCalls[y[1]].invoked[y[2]].key => x = y
    /\ \A i \in DOMAIN memoCalls :
        LET c == memoCalls[i]
            earlier == {x \in InvocationsUpTo(c.fn, i - 1) :
                            memoCalls[x[1]].invoked[x[2]].key = c.key}
        IN IF earlier = {}
            THEN /\ c.ret.cached = FALSE
                 /\ c.invoked # <<>>
                 /\ c.invoked[Len(c.invoked)] = [key |-> c.key, result |-> c.ret.result]
            ELSE /\ c.ret.cached = TRUE
                 /\ c.invoked = <<>>
                 /\ \A x \in earlier : memoCalls[x[1]].invoked[x[2]].result = c.ret.result
    /\ LET fib10First == FibonacciCall(EmptyMap, 10)
           fib10Second == FibonacciCall(fib10First.cache, 10)
       IN /\ fib10First.ret.cached = FALSE
          /\ fib10Second.ret = Memoized(fib10First.ret.result, TRUE)
          /\ Len(fib10First.invoked) = 11

C18_Witness ==
    /\ Len(memoCalls) = 3
    /\ memoCalls[1].fn = "fibonacci" /\ memoCalls[1].arg = N(3)
    /\ memoCalls[2].fn = "fibonacci" /\ memoCalls[2].arg = N(2)
    /\ memoCalls[3].fn = "processData"
    /\ Len(memoCalls[1].invoked) = 4
    /\ memoCalls[2].ret.cached = TRUE /\ memoCalls[2].invoked = <<>>
    /\ memoCalls[3].ret = Memoized(N(30), FALSE)

RECURSIVE FibonacciNumber(_)
\* the n-th Fibonacci number: 0, 1, 1, 2, 3, 5, ...
FibonacciNumber(n) == IF n <= 1 THEN n ELSE FibonacciNumber(n - 1) + FibonacciNumber(n - 2)

\* C19: fibonacci(n).result is the n-th Fibonacci number, on the first call and
\* on a cached one; 55 for n = 10.
C19_FibonacciResult ==
    /\ \A i \in DOMAIN memoCalls :
        memoCalls[i].fn = "fibonacci" =>
            memoCalls[i].ret.result = N(FibonacciNumber(memoCalls[i].arg.n))
    /\ FibonacciCall(EmptyMap, 10).ret.result = N(55)

----------------------------------------------------------------------------
(* ObjectPool of memoryOptimization *)

\* new ObjectPool(createFn, resetFn, initialSize)
PoolNew ==
    \E initialSize \in 0..MaxInitialSize :
        /\ poolOps = <<>>
        /\ pool' = ObjectPoolNew(initialSize)
        /\ held' = <<>>
        /\ poolOps' = <<[op |-> "new", initialSize |-> initialSize]>>
        /\ UNCHANGED <<dashVars, now, timers, nextTimer, dbVars, thVars, emVars, memoVars>>

\* const obj = userPool.acquire()
PoolAcquire ==
    /\ poolOps # <<>> /\ Len(poolOps) < MaxPoolOps
    /\ LET a == Acquire(pool, Len(pool) + Len(held) + 1)
       IN /\ pool' = a.pool
          /\ held' = Append(held, a.obj)
          /\ poolOps' = Append(poolOps, [op |-> "acquire", obj |-> a.obj])
    /\ UNCHANGED <<dashVars, now, timers, nextTimer, dbVars, thVars, emVars, memoVars>>

\* obj.id = i; obj.name = `Pooled User ${i}` on an acquired object
PoolUse ==
    \E k \in DOMAIN held :
        /\ held[k].name = ""
        /\ held' = [held EXCEPT ![k].id = k, ![k].name = "Pooled User " \o ToString(k)]
        /\ UNCHANGED <<dashVars, now, timers, nextTimer, dbVars, thVars, emVars, memoVars,
                       pool, poolOps>>

\* userPool.release(obj) of an acquired object
PoolRelease ==
    \E k \in DOMAIN held :
        /\ Len(poolOps) < MaxPoolOps
        /\ pool' = Release(pool, held[k])
        /\ held' = Splice(held, k)
        /\ poolOps' = Append(poolOps, [op |-> "release", obj |-> held[k]])
        /\ UNCHANGED <<dashVars, now, timers, nextTimer, dbVars, thVars, emVars, memoVars>>

NextPool == PoolNew \/ PoolAcquire \/ PoolUse \/ PoolRelease

SpecPool == InitIdle /\ [][NextPool]_vars

\* the operation of this step, "none" when the step is not a pool operation
PoolOp == IF Len(poolOps') = Len(poolOps) + 1 THEN poolOps'[Len(poolOps')] ELSE [op |-> "none"]

\* the number of objects acquire created because it found the pool empty
CreatedOnDemand ==
    Cardinality({poolOps[i].obj.oid : i \in {j \in DOMAIN poolOps :
                    poolOps[j].op = "acquire" /\ poolOps[j].obj.oid > poolOps[1].initialSize}})

\* C20: a new pool holds initialSize objects; acquire on a non-empty pool hands
\* out one pooled object and lowers size by 1, on an empty pool it hands out a
\* new object and size stays 0; release resets the object and raises size by 1;
\* so with every acquired object released again, and no acquire on an empty
\* pool, size is back at initialSize (10 in the demo).
C20_PoolSize ==
    /\ [][/\ PoolOp.op = "new" => Size(pool') = PoolOp.initialSize
          /\ PoolOp.op = "acquire" =>
                IF Size(pool) > 0
                    THEN /\ Size(pool') = Size(pool) - 1
                         /\ PoolOp.obj = pool[Len(pool)]
                         /\ pool' = SubSeq(pool, 1, Len(pool) - 1)
                    ELSE /\ Size(pool') = 0
                         /\ PoolOp.obj = CreateFn(PoolOp.obj.oid)
                         /\ \A i \in DOMAIN held : held[i].oid # PoolOp.obj.oid
          /\ PoolOp.op = "release" =>
                /\ Size(pool') = Size(pool) + 1
                /\ pool'[Len(pool')] = CreateFn(PoolOp.obj.oid)
                /\ SubSeq(pool', 1, Len(pool)) = pool
          /\ PoolOp.op = "none" => pool' = pool]_vars
    /\ [](poolOps # <<>> =>
            /\ Size(pool) + Len(held) = poolOps[1].initialSize + CreatedOnDemand
            /\ (held = <<>> /\ CreatedOnDemand = 0) => Size(pool) = poolOps[1].initialSize)
    /\ [](Size(MemoryDemo.pool) = 10 /\ Len(MemoryDemo.pooledObjects) = 5)

C20_Witness ==
    /\ Len(poolOps) = 5
    /\ poolOps[1].initialSize = 2
    /\ poolOps[2].op = "acquire" /\ poolOps[3].op = "acquire"
    /\ poolOps[4].op = "release" /\ poolOps[5].op = "release"
    /\ poolOps[4].obj.name # ""
    /\ held = <<>>
    /\ Size(pool) = 2
    /\ \A i \in DOMAIN pool : pool[i].name = ""

====
